---- MODULE Spec2Model ----
(***************************************************************************)
(* The jump-to-definition content script src/chromeext/annotations.js as a *)
(* state machine: the callback-chained network pipeline (mainCall,         *)
(* getAuthToken, authHandler, checkLatestCommit, getAnnotations,           *)
(* getSourcegraphRefLinks) and the character-by-character overlay pass     *)
(* (traverseDOM, next, replace).                                           *)
(*                                                                         *)
(* A string is a sequence of characters; a character is a one-character    *)
(* TLA+ string ("x", "<", "\n") or the name of a multi-byte character      *)
(* ("U+20AC", three bytes).  The string a row's output is built into is a  *)
(* sequence of tokens: the characters copied from the page, and the anchor *)
(* strings next() inserts, each kept as one token.                         *)
(***************************************************************************)
EXTENDS Integers, Sequences, FiniteSets, TLC

\* ------------------------------------------------------------------ bounds
\* Number of pipeline runs (calls of mainCall).
MaxRuns == 2
\* Number of rows of the rendered table.
MaxRows == 2
\* Largest byte offset an annotation of the service's answer ends at.
MaxByte == 4
\* Number of annotation records in the service's answer.
MaxAnns == 2

Runs == 1..MaxRuns

\* ------------------------------------------------------- strings, UTF-8
RECURSIVE Concat(_)
\* The concatenation of a sequence of strings.
Concat(ss) == IF ss = <<>> THEN <<>> ELSE Head(ss) \o Concat(Tail(ss))

\* Bytes of one character's UTF-8 encoding.
CharBytes(c) == IF c = "U+20AC" THEN 3 ELSE 1

RECURSIVE Utf8Length(_)
\* utf8.encode(s).length: the number of bytes of the UTF-8 encoding of s.
Utf8Length(s) == IF s = <<>> THEN 0 ELSE CharBytes(Head(s)) + Utf8Length(Tail(s))

\* ------------------------------------------------------------ the page
\* A child node of a code cell is a text node or an element.  A text node is
\* its data (text, what nodeValue gives).
TextNode(s) == [nodeType |-> "TEXT_NODE", text |-> s]

\* The HTML serialisation of one character of a text node.
EscapeChar(c) ==
    CASE c = "&" -> <<"&", "a", "m", "p", ";">>
      [] c = "<" -> <<"&", "l", "t", ";">>
      [] c = ">" -> <<"&", "g", "t", ";">>
      [] OTHER -> <<c>>

\* The HTML serialisation of a text node's data.
EscapeText(s) == Concat([n \in 1..Len(s) |-> EscapeChar(s[n])])

OpenTag == <<"<", "b", ">">>
CloseTag == <<"<", "/", "b", ">">>

\* An element is the text it holds (text, its part of code.textContent) and
\* its serialisation (html).  The highlighter's markup is an inline element
\* <b>..</b> holding one text node.
ElementNode(s) ==
    [nodeType |-> "ELEMENT_NODE", text |-> s,
     html |-> OpenTag \o EscapeText(s) \o CloseTag]

\* children[j].outerHTML of an element node.
OuterHTML(node) == node.html

\* code.textContent: the text of all the child nodes.
TextContent(row) == Concat([n \in 1..Len(row) |-> row[n].text])

\* code.innerHTML of a cell as the page was rendered.
InnerHTML(row) ==
    Concat([n \in 1..Len(row) |->
              IF row[n].nodeType = "TEXT_NODE"
              THEN EscapeText(row[n].text) ELSE OuterHTML(row[n])])

\* The code cells a table row can be: plain text, text split over a text node
\* and an element, the empty line, a three-byte character before a one-byte
\* one, an escaped operator in an element, and a literal < in a text node
\* (before a space, and as the last character).
RowSet ==
    { <<TextNode(<<"x", "y">>)>>,
      <<TextNode(<<"x">>), ElementNode(<<"y">>)>>,
      <<TextNode(<<"\n">>)>>,
      <<TextNode(<<"U+20AC", "x">>)>>,
      <<ElementNode(<<"&">>), TextNode(<<"x">>)>>,
      <<TextNode(<<"<", " ", "<">>)>> }

\* table.rows: the rendered file, one code cell per source line.
Tables == UNION {[1..n -> RowSet] : n \in 1..MaxRows}

\* --------------------------------------------------- the service's answer
URLs == {"/d"}
Undefined == "undefined"

\* One record of data.Annotations; URL is Undefined when it has no link.
AnnotationSet ==
    {a \in [StartByte : 0..MaxByte, EndByte : 0..MaxByte, URL : URLs \cup {Undefined}] :
        a.StartByte < a.EndByte}

\* The documented precondition: no two annotations overlap.
NonOverlapping(d) ==
    \A m, n \in 1..Len(d) :
        m < n => d[m].EndByte <= d[n].StartByte

\* data.Annotations of a response, in file order.
AnnotationLists ==
    {d \in UNION {[1..n -> AnnotationSet] : n \in 0..MaxAnns} : NonOverlapping(d)}

\* The responses every record of which has a URL.
LinkedLists ==
    {d \in AnnotationLists : \A n \in 1..Len(d) : d[n].URL # Undefined}

\* The anchor strings next() builds, each one token of the output.
AnchorOpen(url) ==
    "<a href='https://sourcegraph.com" \o url \o
    "?utm_source=chromeext&utm_medium=chromeext&utm_campaign=chromeext' target='tab' class='sgdef'>"
AnchorClose == "</a>"
AnchorOpens == {AnchorOpen(u) : u \in URLs}

VARIABLES
    page,           \* what the document holds: fileElem, lang, private,
                    \* permalink
    urlsplit,       \* document.URL.split("/")
    table,          \* table.rows: the code cells as rendered
    serverAnns,     \* data.Annotations the service answers with
    nRuns,          \* mainCall invocations so far
    listeners,      \* click listeners added to the document
    logged,         \* JumpToDefinition events the last click on a generated
                    \* link emitted (0: no such click yet)
    auth,           \* per run: the credential request
    gate,           \* per run: the srclib-data-version request
    ann,            \* per run: the annotations request
    token,          \* per run: the token checkLatestCommit was given
    branch,         \* per run: branch in checkLatestCommit
    commitID,       \* per run: commitID in checkLatestCommit
    raised,         \* per run: checkLatestCommit ended by an uncaught TypeError
    pc,             \* position of the running traverseDOM call
    run,            \* the run whose response started that call
    byStart,        \* annsByStartByte
    byEnd,          \* annsByEndByte
    i, j, k,        \* loop indices: row, child node, character (from 1)
    count,          \* count
    startByte,      \* startByte
    output,         \* output
    consumingSpan,  \* the script-wide flag consumingSpan
    annotating,     \* the script-wide flag annotating
    timers,         \* the setTimeout callbacks replace() queued
    dom,            \* per row: the run that wrote the cell last (0: the page),
                    \* the one whose content that replaced (over), the
                    \* content, the child nodes, and whether popovers were
                    \* activated on them
    popoverVisible  \* an element "sourcegraph-popover visible" exists

reqVars == <<urlsplit, branch, commitID, raised>>
pipeVars == <<page, table, serverAnns, nRuns, listeners, logged, auth, gate,
              ann, token, reqVars>>
passVars == <<pc, run, byStart, byEnd, i, j, k, count, startByte, output,
              consumingSpan, annotating>>
vars == <<pipeVars, passVars, timers, dom, popoverVisible>>

\* ------------------------------------------------------ getSourcegraphRefLinks
\* Every record of data.Annotations, whether it has a URL or not.
LinkedAll(data) == 1..Len(data)

\* The records of data.Annotations that have a URL.
Linked(data) == {n \in 1..Len(data) : data[n].URL # Undefined}

Last(S) == CHOOSE n \in S : \A m \in S : m <= n

\* annsByStartByte after the loop: a later record replaces an earlier one.
AnnsByStartByte(data) ==
    [b \in {data[n].StartByte : n \in Linked(data)} |->
        data[Last({n \in Linked(data) : data[n].StartByte = b})]]

\* annsByEndByte after the loop.
AnnsByEndByte(data) ==
    [b \in {data[n].EndByte : n \in Linked(data)} |->
        data[Last({n \in Linked(data) : data[n].EndByte = b})]]

\* ------------------------------------------------------------------- next
\* next() with the end-boundary branch returning the closing anchor alone.
nextDropsChar(c, byteCount, flag, starts, ends) ==
    IF flag = "false" /\ byteCount \in DOMAIN starts
    THEN IF starts[byteCount].EndByte - starts[byteCount].StartByte = 1
         THEN [out |-> <<AnchorOpen(starts[byteCount].URL), c, AnchorClose>>,
               annotating |-> flag]
         ELSE [out |-> <<AnchorOpen(starts[byteCount].URL), c>>,
               annotating |-> "true"]
    ELSE IF flag = "true" /\ (byteCount + 1) \in DOMAIN ends
         THEN [out |-> <<AnchorClose>>, annotating |-> "false"]
         ELSE [out |-> <<c>>, annotating |-> flag]

\* next(c, byteCount, annsByStartByte, annsByEndByte) with the flag annotating
\* it reads: the string it returns (out) and the flag as it leaves it.
next(c, byteCount, flag, starts, ends) ==
    IF flag = "false" /\ byteCount \in DOMAIN starts
    THEN IF starts[byteCount].EndByte - starts[byteCount].StartByte = 1
         THEN [out |-> <<AnchorOpen(starts[byteCount].URL), c, AnchorClose>>,
               annotating |-> flag]
         ELSE [out |-> <<AnchorOpen(starts[byteCount].URL), c>>,
               annotating |-> "true"]
    ELSE IF flag = "true" /\ (byteCount + 1) \in DOMAIN ends
         THEN [out |-> <<c, AnchorClose>>, annotating |-> "false"]
         ELSE [out |-> <<c>>, annotating |-> flag]

\* ------------------------------------------------------------- traverseDOM
\* The row's bytes with the newline counted for every row.
RowByteCountEveryRow(code) == Utf8Length(TextContent(code)) + 1

\* What count grows by for one code cell.
RowByteCount(code) ==
    Utf8Length(TextContent(code)) + (IF TextContent(code) # <<"\n">> THEN 1 ELSE 0)

\* childNodeChars of a child node.
ChildNodeChars(node) ==
    IF node.nodeType = "TEXT_NODE" THEN node.text ELSE OuterHTML(node)

\* childNodeChars[n], undefined past the end.
CharAt(chars, n) == IF n <= Len(chars) THEN chars[n] ELSE Undefined

\* The first test of the loop's body asking for a character after the <.
RaiseConsumingBeforeChar(flag, c, following) ==
    IF c = "<" /\ following \notin {" ", Undefined} THEN "true" ELSE flag

\* consumingSpan after the test at the head of the character loop.
RaiseConsuming(flag, c, following) ==
    IF c = "<" /\ following # " " THEN "true" ELSE flag

\* consumingSpan after the test at the foot of the character loop.
ClearConsuming(flag, c) == IF c = ">" THEN "false" ELSE flag

\* The flag annotating as a child node's loop starts with it.
AnnotatingAtChildStart(flag) == "false"

\* The character loop counting the bytes of markup too.
EmitCharCountsMarkup(c, consuming, offset, flag, starts, ends) ==
    IF consuming # "true"
    THEN [out |-> next(c, offset, flag, starts, ends).out,
          annotating |-> next(c, offset, flag, starts, ends).annotating,
          startByte |-> offset + Utf8Length(<<c>>)]
    ELSE [out |-> <<c>>, annotating |-> flag, startByte |-> offset + Utf8Length(<<c>>)]

\* The branch on consumingSpan in the character loop: what is appended to
\* output (out), and annotating and startByte after it.
EmitChar(c, consuming, offset, flag, starts, ends) ==
    IF consuming # "true"
    THEN [out |-> next(c, offset, flag, starts, ends).out,
          annotating |-> next(c, offset, flag, starts, ends).annotating,
          startByte |-> offset + Utf8Length(<<c>>)]
    ELSE [out |-> <<c>>, annotating |-> flag, startByte |-> offset]

\* ---------------------------------------------------- code.innerHTML = output
\* Assigning innerHTML hands the string to the browser's HTML parser; the
\* cell's child nodes are what the parser builds, and an element's outerHTML
\* is the serialisation of what was built, not the string that was written.
\*
\* The tag of an anchor as outerHTML serialises it: "<", the name with the
\* attributes (double quotes, & escaped; no < or > among them, so the run is
\* kept as one token), ">".
AnchorAttrs(url) ==
    "a href=\"https://sourcegraph.com" \o url \o
    "?utm_source=chromeext&amp;utm_medium=chromeext&amp;utm_campaign=chromeext\" target=\"tab\" class=\"sgdef\""
AttrRuns == {AnchorAttrs(u) : u \in URLs}
AnchorTagOpen(url) == <<"<", AnchorAttrs(url), ">">>
AnchorTagClose == <<"<", "/", "a", ">">>

UrlOfOpen(t) == CHOOSE u \in URLs : AnchorOpen(u) = t
UrlOfAttrs(t) == CHOOSE u \in URLs : AnchorAttrs(u) = t

Event(kind, tag, url, c) == [kind |-> kind, tag |-> tag, url |-> url, c |-> c]
Drop(s, n) == SubSeq(s, n + 1, Len(s))

RECURSIVE Tokenize(_)
\* The tokenizer: start tags and end tags of a and b, character references
\* (&amp; &lt; &gt;, with or without the semicolon), and characters; a < that
\* starts none of these tags is a character.
Tokenize(s) ==
    IF s = <<>> THEN <<>>
    ELSE LET c == s[1]
             c2 == CharAt(s, 2)
             c3 == CharAt(s, 3)
             c4 == CharAt(s, 4)
         IN CASE c \in AnchorOpens ->
                   <<Event("open", "a", UrlOfOpen(c), "")>> \o Tokenize(Drop(s, 1))
              [] c = AnchorClose ->
                   <<Event("close", "a", "", "")>> \o Tokenize(Drop(s, 1))
              [] c = "<" /\ c2 = "b" /\ c3 = ">" ->
                   <<Event("open", "b", "", "")>> \o Tokenize(Drop(s, 3))
              [] c = "<" /\ c2 \in AttrRuns /\ c3 = ">" ->
                   <<Event("open", "a", UrlOfAttrs(c2), "")>> \o Tokenize(Drop(s, 3))
              [] c = "<" /\ c2 = "/" /\ c3 \in {"a", "b"} /\ c4 = ">" ->
                   <<Event("close", c3, "", "")>> \o Tokenize(Drop(s, 4))
              [] c = "&" /\ c2 = "a" /\ c3 = "m" /\ c4 = "p" ->
                   <<Event("text", "", "", "&")>> \o
                   Tokenize(Drop(s, IF CharAt(s, 5) = ";" THEN 5 ELSE 4))
              [] c = "&" /\ c2 \in {"l", "g"} /\ c3 = "t" ->
                   <<Event("text", "", "", IF c2 = "l" THEN "<" ELSE ">")>> \o
                   Tokenize(Drop(s, IF c4 = ";" THEN 4 ELSE 3))
              [] OTHER ->
                   <<Event("text", "", "", c)>> \o Tokenize(Drop(s, 1))

\* An element on the stack of open elements: the text and the serialised
\* content it has received so far.
OpenElement(tag, url) == [tag |-> tag, url |-> url, text |-> <<>>, inner |-> <<>>]

\* The node an open element becomes when it is closed.
NodeOf(e) ==
    [nodeType |-> "ELEMENT_NODE", text |-> e.text,
     html |-> (IF e.tag = "b" THEN OpenTag ELSE AnchorTagOpen(e.url)) \o e.inner \o
              (IF e.tag = "b" THEN CloseTag ELSE AnchorTagClose)]

\* The tree builder's state b: the stack of open elements, the formatting
\* elements closed by another element's end tag and still to be reopened
\* (fmt), and the cell's finished child nodes (done).
AppendNode(b, node) ==
    IF b.stack = <<>>
    THEN [b EXCEPT !.done = Append(b.done, node)]
    ELSE LET top == b.stack[Len(b.stack)]
         IN [b EXCEPT !.stack[Len(b.stack)] =
                [top EXCEPT !.text = top.text \o node.text,
                            !.inner = top.inner \o node.html]]

PopTop(b) ==
    AppendNode([b EXCEPT !.stack = SubSeq(b.stack, 1, Len(b.stack) - 1)],
               NodeOf(b.stack[Len(b.stack)]))

RECURSIVE PopTo(_, _)
\* The open elements from place n of the stack up are closed.
PopTo(b, n) == IF Len(b.stack) < n THEN b ELSE PopTo(PopTop(b), n)

Places(s, tag) == {n \in 1..Len(s) : s[n].tag = tag}
Without(s, n) == SubSeq(s, 1, n - 1) \o SubSeq(s, n + 1, Len(s))

\* An end tag: the innermost open element of that name is closed with all
\* that is open inside it, and those stay formatting elements to reopen; an
\* end tag with no open element of its name opens nothing.
EndTag(b, tag) ==
    IF Places(b.stack, tag) # {}
    THEN LET n == Last(Places(b.stack, tag))
             above == SubSeq(b.stack, n + 1, Len(b.stack))
         IN [PopTo(b, n) EXCEPT
               !.fmt = b.fmt \o [m \in 1..Len(above) |->
                                   OpenElement(above[m].tag, above[m].url)]]
    ELSE IF Places(b.fmt, tag) # {}
         THEN [b EXCEPT !.fmt = Without(b.fmt, Last(Places(b.fmt, tag)))]
         ELSE b

\* The formatting elements to reopen are reopened before anything is inserted.
Reconstruct(b) == [b EXCEPT !.stack = b.stack \o b.fmt, !.fmt = <<>>]

\* A start tag; that of an anchor first closes an anchor that is open.
StartTag(b, tag, url) ==
    LET r == Reconstruct(IF tag = "a" THEN EndTag(b, "a") ELSE b)
    IN [r EXCEPT !.stack = Append(r.stack, OpenElement(tag, url))]

\* A character: into the innermost open element, or into the cell's last text
\* node.
Character(b, c) ==
    LET r == Reconstruct(b)
    IN IF r.stack = <<>>
       THEN IF r.done # <<>> /\ r.done[Len(r.done)].nodeType = "TEXT_NODE"
            THEN [r EXCEPT !.done[Len(r.done)].text =
                              Append(r.done[Len(r.done)].text, c)]
            ELSE [r EXCEPT !.done = Append(r.done, TextNode(<<c>>))]
       ELSE LET top == r.stack[Len(r.stack)]
            IN [r EXCEPT !.stack[Len(r.stack)] =
                   [top EXCEPT !.text = Append(top.text, c),
                               !.inner = top.inner \o EscapeChar(c)]]

RECURSIVE TreeBuild(_, _)
TreeBuild(evs, b) ==
    IF evs = <<>> THEN PopTo(b, 1).done
    ELSE TreeBuild(Tail(evs),
             CASE Head(evs).kind = "open" -> StartTag(b, Head(evs).tag, Head(evs).url)
               [] Head(evs).kind = "close" -> EndTag(b, Head(evs).tag)
               [] OTHER -> Character(b, Head(evs).c))

\* code.childNodes after code.innerHTML = content.
ParseHTML(content) ==
    TreeBuild(Tokenize(content), [stack |-> <<>>, fmt |-> <<>>, done |-> <<>>])

\* The cells of a page as the site rendered it.
Rendered(t) ==
    [n \in 1..Len(t) |->
        [by |-> 0, over |-> 0, content |-> InnerHTML(t[n]), nodes |-> t[n],
         popovers |-> FALSE]]

\* code.childNodes of row n of the table in the document.
Children(n) == dom[n].nodes

Chars == ChildNodeChars(Children(i)[j])

\* A handler may start while a call of traverseDOM is under way.
IdleOrPreempting == TRUE

\* No call of traverseDOM is under way: a handler runs to its end before the
\* next one starts.
Idle == pc = "idle"

\* The values the locals of traverseDOM have when no call is running.
NoPass ==
    /\ pc' = "idle"
    /\ run' = 0
    /\ byStart' = <<>>
    /\ byEnd' = <<>>
    /\ i' = 0 /\ j' = 0 /\ k' = 0
    /\ count' = 0
    /\ startByte' = 0
    /\ output' = <<>>

\* The annotations response of run r arrives with success and is applied only
\* when no later run has started.
GetSourcegraphRefLinksOfLatestRun(r) ==
    /\ Idle
    /\ ann[r] = "inflight"
    /\ ann' = [ann EXCEPT ![r] = "ok"]
    /\ IF r = nRuns
       THEN /\ byStart' = AnnsByStartByte(serverAnns)
            /\ byEnd' = AnnsByEndByte(serverAnns)
            /\ run' = r
            /\ count' = 0
            /\ i' = 1
            /\ pc' = "row"
       ELSE UNCHANGED <<byStart, byEnd, run, count, i, pc>>
    /\ UNCHANGED <<page, table, serverAnns, nRuns, listeners, logged, auth, gate, token>>
    /\ UNCHANGED <<reqVars, j, k, startByte, output, consumingSpan, annotating>>
    /\ UNCHANGED <<timers, dom, popoverVisible>>

\* The annotations response of run r arrives with success:
\* getSourcegraphRefLinks(data) builds the index and traverseDOM starts.
GetSourcegraphRefLinks(r) ==
    /\ Idle
    /\ ann[r] = "inflight"
    /\ ann' = [ann EXCEPT ![r] = "ok"]
    /\ byStart' = AnnsByStartByte(serverAnns)
    /\ byEnd' = AnnsByEndByte(serverAnns)
    /\ run' = r
    /\ count' = 0
    /\ i' = 1
    /\ pc' = "row"
    /\ UNCHANGED <<page, table, serverAnns, nRuns, listeners, logged, auth, gate, token>>
    /\ UNCHANGED <<reqVars, j, k, startByte, output, consumingSpan, annotating>>
    /\ UNCHANGED <<timers, dom, popoverVisible>>

\* The head of the row loop, up to the child loop.
RowStart ==
    /\ pc = "row"
    /\ i <= Len(dom)
    /\ output' = <<>>
    /\ startByte' = count
    /\ count' = count + RowByteCount(Children(i))
    /\ j' = 1
    /\ pc' = "child"
    /\ UNCHANGED <<pipeVars, run, byStart, byEnd, i, k, consumingSpan, annotating>>
    /\ UNCHANGED <<timers, dom, popoverVisible>>

\* The head of the child loop: both flags are reset.
ChildStart ==
    /\ pc = "child"
    /\ j <= Len(Children(i))
    /\ consumingSpan' = "false"
    /\ annotating' = AnnotatingAtChildStart(annotating)
    /\ k' = 1
    /\ pc' = "char"
    /\ UNCHANGED <<pipeVars, run, byStart, byEnd, i, j, count, startByte, output>>
    /\ UNCHANGED <<timers, dom, popoverVisible>>

\* consumingSpan after the first test of the character loop's body: a < not
\* followed by a space raises it.
Consuming == RaiseConsuming(consumingSpan, Chars[k], CharAt(Chars, k + 1))

\* The pass is at the head of the character loop's body.
AtChar == pc = "char" /\ k <= Len(Chars)

\* One turn of the character loop: the character goes to the output, through
\* next() and counted unless markup is being consumed; a > ends the markup.
CharStep ==
    /\ AtChar
    /\ LET r == EmitChar(Chars[k], Consuming, startByte, annotating, byStart, byEnd)
       IN /\ output' = output \o r.out
          /\ annotating' = r.annotating
          /\ startByte' = r.startByte
    /\ consumingSpan' = ClearConsuming(Consuming, Chars[k])
    /\ k' = k + 1
    /\ UNCHANGED <<pipeVars, run, byStart, byEnd, i, j, count, pc>>
    /\ UNCHANGED <<timers, dom, popoverVisible>>

\* The character loop ends: the next child node.
ChildEnd ==
    /\ pc = "char"
    /\ k > Len(Chars)
    /\ j' = j + 1
    /\ pc' = "child"
    /\ UNCHANGED <<pipeVars, run, byStart, byEnd, i, k, count, startByte, output,
                   consumingSpan, annotating>>
    /\ UNCHANGED <<timers, dom, popoverVisible>>

\* The child loop ends and the cell is replaced within the traversal.
RowEndReplacesNow ==
    /\ pc = "child"
    /\ j > Len(Children(i))
    /\ dom' = [dom EXCEPT ![i] =
                  [by |-> run, over |-> dom[i].by, content |-> output,
                   nodes |-> ParseHTML(output), popovers |-> TRUE]]
    /\ i' = i + 1
    /\ pc' = "row"
    /\ UNCHANGED <<pipeVars, run, byStart, byEnd, j, k, count, startByte, output,
                   consumingSpan, annotating>>
    /\ UNCHANGED <<timers, popoverVisible>>

\* The child loop ends: replace(code, output) queues the cell's replacement.
RowEnd ==
    /\ pc = "child"
    /\ j > Len(Children(i))
    /\ timers' = Append(timers, [run |-> run, row |-> i, gen |-> nRuns,
                                  output |-> output])
    /\ i' = i + 1
    /\ pc' = "row"
    /\ UNCHANGED <<pipeVars, run, byStart, byEnd, j, k, count, startByte, output,
                   consumingSpan, annotating>>
    /\ UNCHANGED <<dom, popoverVisible>>

\* The row loop ends: a visible popover is dismissed and traverseDOM returns.
PassEnd ==
    /\ pc = "row"
    /\ i > Len(dom)
    /\ popoverVisible' = FALSE
    /\ NoPass
    /\ UNCHANGED <<pipeVars, consumingSpan, annotating, timers, dom>>

\* A callback queued by replace() runs: code.innerHTML = output, then
\* defPopovers(code) on the new child nodes.  code is the cell the pass read:
\* when the page has been rendered anew since, that cell is no longer in the
\* document and the document does not change.
ReplaceTimer ==
    /\ Idle
    /\ timers # <<>>
    /\ dom' = IF Head(timers).gen = nRuns
              THEN [dom EXCEPT ![Head(timers).row] =
                      [by |-> Head(timers).run, over |-> dom[Head(timers).row].by,
                       content |-> Head(timers).output,
                       nodes |-> ParseHTML(Head(timers).output), popovers |-> TRUE]]
              ELSE dom
    /\ timers' = Tail(timers)
    /\ UNCHANGED <<pipeVars, passVars, popoverVisible>>

Traverse ==
    \/ RowStart
    \/ ChildStart
    \/ CharStep
    \/ ChildEnd
    \/ RowEnd
    \/ PassEnd

\* ------------------------------------------------------- document.URL
\* document.URL.split("/") of the pages: a file view, the blob and tree routes
\* with no revision segment, another route with one, and the repository root.
BlobURL == <<"https:", "", "github.com", "u", "r", "blob", "dev", "f.go">>
PageURLs ==
    { BlobURL,
      <<"https:", "", "github.com", "u", "r", "blob">>,
      <<"https:", "", "github.com", "u", "r", "tree">>,
      <<"https:", "", "github.com", "u", "r", "commits", "dev">>,
      <<"https:", "", "github.com", "u", "r">> }

Null == "null"

\* urlsplit[n], n counted from 0: undefined past the end of the array.
Segment(segs, n) == IF n + 1 <= Len(segs) THEN segs[n + 1] ELSE Undefined

\* branch as checkLatestCommit computes it.
Branch(segs) ==
    IF Segment(segs, 6) # Null /\ Segment(segs, 5) \in {"tree", "blob"}
    THEN Segment(segs, 6)
    ELSE "master"

\* ------------------------------------------------------ the overlay pass alone
\* A public Go page whose first run has issued its requests; every table and
\* every answer of the service within the bounds.
InitPass ==
    /\ page = [fileElem |-> TRUE, lang |-> "go", private |-> FALSE,
               permalink |-> TRUE]
    /\ urlsplit = BlobURL
    /\ branch = [r \in Runs |-> IF r = 1 THEN "dev" ELSE Undefined]
    /\ commitID = [r \in Runs |-> IF r = 1 THEN "sha" ELSE Undefined]
    /\ raised = [r \in Runs |-> FALSE]
    /\ serverAnns \in LinkedLists
    /\ table \in Tables
    /\ nRuns = 1
    /\ listeners = 1
    /\ logged = 0
    /\ auth = [r \in Runs |-> "none"]
    /\ gate = [r \in Runs |-> IF r = 1 THEN "inflight" ELSE "none"]
    /\ ann = [r \in Runs |-> IF r = 1 THEN "inflight" ELSE "none"]
    /\ token = [r \in Runs |-> Undefined]
    /\ pc = "idle"
    /\ run = 0
    /\ byStart = <<>>
    /\ byEnd = <<>>
    /\ i = 0 /\ j = 0 /\ k = 0
    /\ count = 0
    /\ startByte = 0
    /\ output = <<>>
    /\ consumingSpan = Undefined
    /\ annotating = Undefined
    /\ timers = <<>>
    /\ dom = Rendered(table)
    /\ popoverVisible = TRUE

NextPass ==
    \/ GetSourcegraphRefLinks(1)
    \/ Traverse
    \/ ReplaceTimer

SpecPass == InitPass /\ [][NextPass]_vars

\* ------------------------------------------------------------ the pipeline
\* Every extension taken for "go".
ToLowerCaseAnyIsGo(s) == "go"

\* lang.toLowerCase() of the file name's last dot-separated part.
ToLowerCase(s) == IF s = "GO" THEN "go" ELSE s

\* What the document of a page can hold: the element ".file .blob-wrapper"
\* (and with it an element of class "file"), the extension of the file name
\* shown, an element of class "vis-private", and the permalink element.
Pages ==
    [fileElem : BOOLEAN, lang : {"go", "GO", "js"}, private : BOOLEAN,
     permalink : BOOLEAN]

\* The tables and the answers of the service the pipeline is run on.
PageTables ==
    { <<<<TextNode(<<"x", "y">>)>>>>,
      <<<<ElementNode(<<"x">>)>>, <<TextNode(<<"\n">>)>>>> }
PageAnnotations ==
    { <<>>,
      <<[StartByte |-> 0, EndByte |-> 1, URL |-> "/d"]>>,
      <<[StartByte |-> 0, EndByte |-> 2, URL |-> "/d"]>>,
      <<[StartByte |-> 0, EndByte |-> 1, URL |-> Undefined],
        [StartByte |-> 1, EndByte |-> 2, URL |-> "/d"]>> }

\* What a successful answer of the credential request can be: a document
\* whose head carries the token attribute, one whose head does not, and one
\* with no head element.
AuthDocuments == {"token", "noattr", "nohead"}

\* The token authHandler builds from a document that has a head element.
AuthToken(doc) ==
    IF doc = "token" THEN "x-oauth-basic:TOKEN" ELSE "x-oauth-basic:null"

\* commitID as checkLatestCommit computes it on a document that lets it: the
\* seventh segment of the permalink when an element of class "file" exists.
CommitID(p) == IF p.fileElem THEN "sha" ELSE Undefined

\* The permalink element is read and is not there: [0].href throws.
Throws(p) == p.fileElem /\ ~p.permalink

\* checkLatestCommit(token) of run r.  The srclib-data-version request is sent,
\* and the argument of .done(), getAnnotations(...), is evaluated on the spot:
\* the annotations request is sent in the same call.
CheckLatestCommit(r, tok) ==
    /\ token' = [token EXCEPT ![r] = tok]
    /\ branch' = [branch EXCEPT ![r] = Branch(urlsplit)]
    /\ IF Throws(page)
       THEN /\ raised' = [raised EXCEPT ![r] = TRUE]
            /\ UNCHANGED <<commitID, gate, ann>>
       ELSE /\ commitID' = [commitID EXCEPT ![r] = CommitID(page)]
            /\ gate' = [gate EXCEPT ![r] = "inflight"]
            /\ ann' = [ann EXCEPT ![r] = "inflight"]
            /\ UNCHANGED raised
    /\ UNCHANGED urlsplit

\* Every page is taken to be marked private.
VisPrivateAlways(p) == TRUE

\* The page is marked private.
VisPrivate(p) == p.private

\* mainCall(), from main() on the first load or from the PJAX listener after a
\* navigation; a navigation has rendered the page anew.
MainCall ==
    /\ Idle
    /\ nRuns < MaxRuns
    /\ nRuns' = nRuns + 1
    /\ dom' = IF nRuns = 0 THEN dom ELSE Rendered(table)
    /\ IF page.fileElem
       THEN /\ listeners' = listeners + 1
            /\ IF ToLowerCase(page.lang) = "go"
               THEN IF VisPrivate(page)
                    THEN /\ auth' = [auth EXCEPT ![nRuns + 1] = "inflight"]
                         /\ UNCHANGED <<gate, ann, token, reqVars>>
                    ELSE /\ CheckLatestCommit(nRuns + 1, Undefined)
                         /\ UNCHANGED auth
               ELSE UNCHANGED <<auth, gate, ann, token, reqVars>>
       ELSE UNCHANGED <<listeners, auth, gate, ann, token, reqVars>>
    /\ UNCHANGED <<page, table, serverAnns, logged, passVars, timers,
                   popoverVisible>>

\* The credential request of run r is answered with success: authHandler(data).
\* Without a head element getAttribute is called on undefined and the handler
\* throws before checkLatestCommit.
AuthHandler(r) ==
    /\ Idle
    /\ auth[r] = "inflight"
    /\ \E doc \in AuthDocuments :
          IF doc = "nohead"
          THEN /\ auth' = [auth EXCEPT ![r] = "threw"]
               /\ UNCHANGED <<gate, ann, token, reqVars>>
          ELSE /\ auth' = [auth EXCEPT ![r] = "ok"]
               /\ CheckLatestCommit(r, AuthToken(doc))
    /\ UNCHANGED <<page, table, serverAnns, nRuns, listeners, logged>>
    /\ UNCHANGED <<passVars, timers, dom, popoverVisible>>

\* The credential request of run r fails: no callback is registered for that.
AuthFail(r) ==
    /\ Idle
    /\ auth[r] = "inflight"
    /\ auth' = [auth EXCEPT ![r] = "fail"]
    /\ UNCHANGED <<page, table, serverAnns, nRuns, listeners, logged, gate, ann, token>>
    /\ UNCHANGED <<reqVars, passVars, timers, dom, popoverVisible>>

\* The srclib-data-version request of run r is answered with success: the
\* callback given to .done() is undefined, nothing runs.
GateDone(r) ==
    /\ Idle
    /\ gate[r] = "inflight"
    /\ gate' = [gate EXCEPT ![r] = "ok"]
    /\ UNCHANGED <<page, table, serverAnns, nRuns, listeners, logged, auth, ann, token>>
    /\ UNCHANGED <<reqVars, passVars, timers, dom, popoverVisible>>

\* The srclib-data-version request of run r fails: the callback returns.
GateFail(r) ==
    /\ Idle
    /\ gate[r] = "inflight"
    /\ gate' = [gate EXCEPT ![r] = "fail"]
    /\ UNCHANGED <<page, table, serverAnns, nRuns, listeners, logged, auth, ann, token>>
    /\ UNCHANGED <<reqVars, passVars, timers, dom, popoverVisible>>

\* The annotations request of run r fails and the render pass starts all the
\* same, with an empty index.
AnnotationsFailRenders(r) ==
    /\ Idle
    /\ ann[r] = "inflight"
    /\ ann' = [ann EXCEPT ![r] = "fail"]
    /\ byStart' = <<>>
    /\ byEnd' = <<>>
    /\ run' = r
    /\ count' = 0
    /\ i' = 1
    /\ pc' = "row"
    /\ UNCHANGED <<page, table, serverAnns, nRuns, listeners, logged, auth, gate, token>>
    /\ UNCHANGED <<reqVars, j, k, startByte, output, consumingSpan, annotating>>
    /\ UNCHANGED <<timers, dom, popoverVisible>>

\* The annotations request of run r fails: no callback is registered for that.
AnnotationsFail(r) ==
    /\ Idle
    /\ ann[r] = "inflight"
    /\ ann' = [ann EXCEPT ![r] = "fail"]
    /\ UNCHANGED <<page, table, serverAnns, nRuns, listeners, logged, auth, gate, token>>
    /\ UNCHANGED <<reqVars, passVars, timers, dom, popoverVisible>>

\* The rows that hold an element of class "sgdef": a child node of the cell
\* that is an anchor written by a pass.
SgdefLinks ==
    {n \in DOMAIN dom :
        \E m \in DOMAIN dom[n].nodes :
            /\ dom[n].nodes[m].nodeType = "ELEMENT_NODE"
            /\ dom[n].nodes[m].html[2] \in AttrRuns}

\* A click whose target is an element of class "sgdef": every click listener
\* mainCall has added to the document runs and logs one event.
Click ==
    /\ Idle
    /\ SgdefLinks # {}
    /\ logged' = listeners
    /\ UNCHANGED <<page, table, serverAnns, nRuns, listeners, auth, gate, ann,
                   token, reqVars>>
    /\ UNCHANGED <<passVars, timers, dom, popoverVisible>>

Init ==
    /\ page \in Pages
    /\ urlsplit = BlobURL
    /\ branch = [r \in Runs |-> Undefined]
    /\ commitID = [r \in Runs |-> Undefined]
    /\ raised = [r \in Runs |-> FALSE]
    /\ table \in PageTables
    /\ serverAnns \in PageAnnotations
    /\ nRuns = 0
    /\ listeners = 0
    /\ logged = 0
    /\ auth = [r \in Runs |-> "none"]
    /\ gate = [r \in Runs |-> "none"]
    /\ ann = [r \in Runs |-> "none"]
    /\ token = [r \in Runs |-> Undefined]
    /\ pc = "idle"
    /\ run = 0
    /\ byStart = <<>>
    /\ byEnd = <<>>
    /\ i = 0 /\ j = 0 /\ k = 0
    /\ count = 0
    /\ startByte = 0
    /\ output = <<>>
    /\ consumingSpan = Undefined
    /\ annotating = Undefined
    /\ timers = <<>>
    /\ dom = Rendered(table)
    /\ popoverVisible \in BOOLEAN

Next ==
    \/ MainCall
    \/ \E r \in Runs : AuthHandler(r)
    \/ \E r \in Runs : AuthFail(r)
    \/ \E r \in Runs : GateDone(r)
    \/ \E r \in Runs : GateFail(r)
    \/ \E r \in Runs : GetSourcegraphRefLinks(r)
    \/ \E r \in Runs : AnnotationsFail(r)
    \/ Traverse
    \/ ReplaceTimer
    \/ Click

Spec == Init /\ [][Next]_vars

\* ------------------------------------------------- the index of every answer
\* The overlay pass on the pipeline's tables, for every answer of the service
\* within the bounds, records without a URL included.
InitIndex ==
    /\ page = [fileElem |-> TRUE, lang |-> "go", private |-> FALSE,
               permalink |-> TRUE]
    /\ urlsplit = BlobURL
    /\ branch = [r \in Runs |-> IF r = 1 THEN "dev" ELSE Undefined]
    /\ commitID = [r \in Runs |-> IF r = 1 THEN "sha" ELSE Undefined]
    /\ raised = [r \in Runs |-> FALSE]
    /\ serverAnns \in AnnotationLists
    /\ table \in PageTables
    /\ nRuns = 1
    /\ listeners = 1
    /\ logged = 0
    /\ auth = [r \in Runs |-> "none"]
    /\ gate = [r \in Runs |-> IF r = 1 THEN "inflight" ELSE "none"]
    /\ ann = [r \in Runs |-> IF r = 1 THEN "inflight" ELSE "none"]
    /\ token = [r \in Runs |-> Undefined]
    /\ pc = "idle"
    /\ run = 0
    /\ byStart = <<>>
    /\ byEnd = <<>>
    /\ i = 0 /\ j = 0 /\ k = 0
    /\ count = 0
    /\ startByte = 0
    /\ output = <<>>
    /\ consumingSpan = Undefined
    /\ annotating = Undefined
    /\ timers = <<>>
    /\ dom = Rendered(table)
    /\ popoverVisible = TRUE

SpecIndex == InitIndex /\ [][NextPass]_vars

\* ------------------------------------------------------- the page's location
\* The pipeline on a public Go file page, for every location of PageURLs.
InitUrl ==
    /\ page = [fileElem |-> TRUE, lang |-> "go", private |-> FALSE,
               permalink |-> TRUE]
    /\ urlsplit \in PageURLs
    /\ branch = [r \in Runs |-> Undefined]
    /\ commitID = [r \in Runs |-> Undefined]
    /\ raised = [r \in Runs |-> FALSE]
    /\ table \in PageTables
    /\ serverAnns \in PageAnnotations
    /\ nRuns = 0
    /\ listeners = 0
    /\ logged = 0
    /\ auth = [r \in Runs |-> "none"]
    /\ gate = [r \in Runs |-> "none"]
    /\ ann = [r \in Runs |-> "none"]
    /\ token = [r \in Runs |-> Undefined]
    /\ pc = "idle"
    /\ run = 0
    /\ byStart = <<>>
    /\ byEnd = <<>>
    /\ i = 0 /\ j = 0 /\ k = 0
    /\ count = 0
    /\ startByte = 0
    /\ output = <<>>
    /\ consumingSpan = Undefined
    /\ annotating = Undefined
    /\ timers = <<>>
    /\ dom = Rendered(table)
    /\ popoverVisible = FALSE

NextUrl ==
    \/ MainCall
    \/ \E r \in Runs : GateDone(r)
    \/ \E r \in Runs : GateFail(r)
    \/ \E r \in Runs : GetSourcegraphRefLinks(r)
    \/ \E r \in Runs : AnnotationsFail(r)
    \/ Traverse
    \/ ReplaceTimer

SpecUrl == InitUrl /\ [][NextUrl]_vars

\* ------------------------------------------------------- pipeline claims
\* The rows whose content run r has replaced, and the replacements it queued.
RowsWrittenBy(r) == {n \in DOMAIN dom : dom[n].by = r}
TimersOf(r) == {n \in DOMAIN timers : timers[n].run = r}

\* C1: in a run whose version-gate request has failed, the annotations request
\* is never issued and no row's content is replaced.
C1_GateFailureStopsRun ==
    \A r \in Runs :
        gate[r] = "fail" =>
            /\ ann[r] = "none"
            /\ RowsWrittenBy(r) = {}
            /\ TimersOf(r) = {}

\* C2: each stage of a run starts only after its predecessor has completed with
\* success: the annotations request is issued only once the version-gate
\* response has arrived with success, the render pass starts only once the
\* annotations response has, and no two requests of a run are in flight
\* together.
C2_StagesSequential ==
    \A r \in Runs :
        /\ gate[r] # "none" => auth[r] \in {"none", "ok"}
        /\ ann[r] # "none" => gate[r] = "ok"
        /\ (run = r \/ TimersOf(r) # {} \/ RowsWrittenBy(r) # {}) => ann[r] = "ok"
        /\ Cardinality({q \in {"auth", "gate", "ann"} :
                          (CASE q = "auth" -> auth[r]
                             [] q = "gate" -> gate[r]
                             [] OTHER -> ann[r]) = "inflight"}) <= 1

\* C10: on a private page, when the credential request has failed (a request
\* error, or an answer no token can be taken from), the run still issues the
\* version-gate request, without a token.
C10_AuthFailureProceeds ==
    \A r \in Runs :
        (page.private /\ auth[r] \in {"fail", "threw"}) =>
            /\ gate[r] # "none"
            /\ token[r] = Undefined

\* ---------------------------------------------------- overlay pass claims
\* The file the service indexed is the rows' text in order, each line ended by
\* one newline byte; an empty line is a row whose text is that newline.
LineBytes(row) ==
    IF TextContent(row) = <<"\n">> THEN 1 ELSE Utf8Length(TextContent(row)) + 1

RECURSIVE LinesBytes(_, _)
\* Bytes of the first n lines of the file.
LinesBytes(rows, n) ==
    IF n = 0 THEN 0 ELSE LinesBytes(rows, n - 1) + LineBytes(rows[n])

\* Characters of an element's text whose serialisation ends before place p of
\* the serialised text.
SerialisedBefore(text, p) ==
    Cardinality({n \in 1..Len(text) : Len(EscapeText(SubSeq(text, 1, n))) < p})

\* The text of the row that precedes place kk of child node jj's characters.
TextBefore(row, jj, kk) ==
    TextContent(SubSeq(row, 1, jj - 1)) \o
    (IF row[jj].nodeType = "TEXT_NODE"
     THEN SubSeq(row[jj].text, 1, kk - 1)
     ELSE SubSeq(row[jj].text, 1, SerialisedBefore(row[jj].text, kk - Len(OpenTag))))

\* Place kk of child node jj's characters is where a character of the file
\* starts (not markup, and not the rest of an escaped character).
IsFileChar(row, jj, kk) ==
    \/ row[jj].nodeType = "TEXT_NODE"
    \/ \E n \in 1..Len(row[jj].text) :
          Len(EscapeText(SubSeq(row[jj].text, 1, n - 1))) = kk - Len(OpenTag) - 1

\* The byte offset in the file of the character the pass is at.
FileOffset == LinesBytes(table, i - 1) + Utf8Length(TextBefore(table[i], j, k))

\* C3: every character processed outside markup consumption is looked up at
\* its UTF-8 byte offset in the whole file: the offset carries over from row to
\* row and grows by each character's byte length.
C3_LookupOffsetIsFileOffset ==
    (AtChar /\ Consuming # "true" /\ IsFileChar(table[i], j, k)) =>
        startByte = FileOffset

\* C4: for every row, count grows by the sum of the UTF-8 byte lengths of the
\* characters of the row's text plus one newline byte, and by exactly 1 for a
\* row whose text is a lone newline.
C4_RowContribution ==
    [][(pc = "row" /\ pc' = "child") =>
          count' - count =
              IF TextContent(table[i]) = <<"\n">>
              THEN 1
              ELSE Utf8Length(TextContent(table[i])) + 1]_vars

\* An empty line after a line with a three-byte character has been counted.
C4_Witness ==
    /\ pc = "child"
    /\ i = 2
    /\ TextContent(table[1]) = <<"U+20AC", "x">>
    /\ TextContent(table[2]) = <<"\n">>
    /\ count = 6

\* The byte offsets, from the start of a line, at which its characters start
\* and end.
CharBoundaries(row) ==
    {Utf8Length(SubSeq(TextContent(row), 1, n)) : n \in 0..Len(TextContent(row))}

\* The documented precondition on the service's answer: every linked
\* annotation covers whole characters of one line of the file.
WellFormedAnswer ==
    \A m \in Linked(serverAnns) :
        \E n \in DOMAIN table :
            /\ TextContent(table[n]) # <<"\n">>
            /\ (serverAnns[m].StartByte - LinesBytes(table, n - 1))
                   \in CharBoundaries(table[n])
            /\ (serverAnns[m].EndByte - LinesBytes(table, n - 1))
                   \in CharBoundaries(table[n])

\* The annotations of the index that span more than one byte.
MultiByteAnnotations ==
    {byStart[b] : b \in {n \in DOMAIN byStart :
                           byStart[n].EndByte - byStart[n].StartByte > 1}}

\* C5: for every multi-byte annotation [N, M) of the index and every layout of
\* the row, an opening anchor goes right before the character whose offset is
\* N and a closing anchor right after the character whose offset + 1 is M
\* (for an answer of the service that is well formed).
C5_MultiByteAnnotationWrapped ==
    [][(WellFormedAnswer /\ AtChar /\ Consuming # "true") =>
          \A a \in MultiByteAnnotations :
              /\ a.StartByte = startByte =>
                    output' = output \o <<AnchorOpen(a.URL), Chars[k]>>
              /\ a.EndByte = startByte + 1 =>
                    output' = output \o <<Chars[k], AnchorClose>>]_vars

\* C6: once set, annotating stays set across child nodes and rows; only the
\* end-boundary match of next() clears it (shown on well-formed answers).
C6_AnnotatingClearedOnlyAtEnd ==
    [][(WellFormedAnswer /\ annotating = "true" /\ annotating' # "true") =>
          /\ AtChar
          /\ Consuming # "true"
          /\ (startByte + 1) \in DOMAIN byEnd]_vars

\* The one-byte annotations of the index.
OneByteAnnotations ==
    {byStart[b] : b \in {n \in DOMAIN byStart :
                           byStart[n].EndByte - byStart[n].StartByte = 1}}

\* The complete anchors (open, character, close) in a string.
CompleteAnchors(s) ==
    Cardinality({n \in 1..Len(s) :
                   /\ s[n] \in AnchorOpens
                   /\ n + 2 <= Len(s)
                   /\ s[n + 2] = AnchorClose})

\* The rows' strings built so far by the running pass: those handed to
\* replace(), and the one being built.
PassOutputs ==
    Concat([n \in 1..Len(timers) |-> timers[n].output]) \o
    (IF pc \in {"child", "char"} THEN output ELSE <<>>)

\* C7: a one-byte annotation at offset N met while no annotation is open wraps
\* the one character whose cumulative offset is N in a complete anchor and
\* leaves annotating unset (first conjunct); a character is wrapped in a
\* complete anchor only so (second), and no other character is wrapped because
\* of that annotation (third), for an answer of the service that is well formed.
C7_OneByteAnnotationWrapsOne ==
    [][WellFormedAnswer =>
       /\ (/\ AtChar
           /\ Consuming # "true"
           /\ annotating = "false"
           /\ \E a \in OneByteAnnotations : a.StartByte = startByte) =>
              /\ output' = output \o
                    <<AnchorOpen(byStart[startByte].URL), Chars[k], AnchorClose>>
              /\ annotating' = "false"
       /\ (AtChar /\ CompleteAnchors(output') > CompleteAnchors(output)) =>
              /\ Consuming # "true"
              /\ annotating = "false"
              /\ \E a \in OneByteAnnotations : a.StartByte = startByte
       /\ pc' # "idle" =>
              CompleteAnchors(PassOutputs') <= Cardinality(OneByteAnnotations')]_vars

\* A string without the anchors next() inserted.
StripAnchors(s) == SelectSeq(s, LAMBDA t : t \notin AnchorOpens \cup {AnchorClose})

\* The characters of a row as the page holds them: each child node's in order.
RowChars(row) == Concat([n \in 1..Len(row) |-> ChildNodeChars(row[n])])

C9_MarkupCopiedUncounted ==
    [][(AtChar /\ Consuming = "true") =>
          /\ output' = Append(output, Chars[k])
          /\ startByte' = startByte
          /\ annotating' = annotating]_vars

\* Markup has been copied at an offset where an annotation starts and where
\* one that is open ends.
C9_Witness ==
    /\ pc = "char"
    /\ k > 1
    /\ k <= Len(Chars)
    /\ consumingSpan = "true"
    /\ startByte \in DOMAIN byStart
    /\ output # <<>>
    /\ output[Len(output)] = Chars[k - 1]

\* ------------------------------------------------ the pipeline, further claims
\* C11: the annotations request of a run is attempted at most once; once it has
\* failed it is not sent again, the render pass of that run never starts and
\* no row's content is replaced by that run.
C11_AnnotationRequestOnce ==
    [][\A r \in Runs :
          /\ (ann[r] # "inflight" /\ ann'[r] = "inflight") => ann[r] = "none"
          /\ ann[r] = "fail" =>
                /\ ann'[r] = "fail"
                /\ run' # r
                /\ TimersOf(r)' = {}
                /\ RowsWrittenBy(r)' = {}]_vars

\* The annotations request of a run has failed after its version-gate request
\* succeeded, and nothing is left to run.
C11_Witness ==
    /\ Idle
    /\ timers = <<>>
    /\ \E r \in Runs : ann[r] = "fail" /\ gate[r] = "ok"

\* C12: no run is cancelled or checked against a current generation: the
\* annotations response of any run, an earlier one included, starts a render
\* pass with that answer's index, and the replacements the pass queued are
\* applied to the rows of the page it read.  So a state is reachable
\* (C12_Witness) in which a row holds the earlier run's content written over
\* the later run's.
C12_StaleResponseApplied ==
    [][/\ \A r \in Runs :
             (ann[r] = "inflight" /\ ann'[r] = "ok") =>
                 /\ pc' = "row"
                 /\ run' = r
                 /\ byStart' = AnnsByStartByte(serverAnns)
                 /\ byEnd' = AnnsByEndByte(serverAnns)
       /\ (timers # <<>> /\ timers' = Tail(timers) /\ Head(timers).gen = nRuns) =>
             /\ dom'[Head(timers).row].by = Head(timers).run
             /\ dom'[Head(timers).row].content = Head(timers).output]_vars

\* A row holds content of the first run, with an anchor of its answer, that
\* replaced content of the second.
C12_Witness ==
    \E n \in DOMAIN dom :
        /\ dom[n].by = 1
        /\ dom[n].over = 2
        /\ nRuns = 2
        /\ \E m \in DOMAIN dom[n].content : dom[n].content[m] \in AnchorOpens

\* ---------------------------------------------------------------- C13
\* Row n has been traversed by the pass of the first run.
Traversed(n) == ann[1] = "ok" /\ (pc = "idle" \/ n < i)

\* The replacements of row n: those still queued and the one carried out.
Replacements(n) ==
    Cardinality({m \in DOMAIN timers : timers[m].row = n})
        + (IF dom[n].by # 0 THEN 1 ELSE 0)

\* A traversed row has one replacement, queued or done, and any other none.
OneReplacement ==
    \A n \in DOMAIN dom : Replacements(n) = (IF Traversed(n) THEN 1 ELSE 0)

\* The popovers are active only on the child nodes of replaced content; a row
\* not replaced shows what the page rendered.
ActivatedOnNewContent ==
    \A n \in DOMAIN dom :
        /\ dom[n].popovers =>
              dom[n].by # 0 /\ dom[n].nodes = ParseHTML(dom[n].content)
        /\ dom[n].by = 0 =>
              /\ dom[n].content = InnerHTML(table[n])
              /\ dom[n].nodes = table[n]
              /\ ~dom[n].popovers

\* C13: in a render pass each row gets exactly one content replacement; the
\* traversal itself leaves the row's content in place and only queues the
\* replacement, which is carried out in a later tick when no traversal runs;
\* the popovers are activated in that tick, on the child nodes of the new
\* content.
C13_ReplacementDeferred ==
    [][/\ OneReplacement
       /\ OneReplacement'
       /\ ActivatedOnNewContent
       /\ pc # "idle" => dom' = dom
       /\ (pc = "child" /\ pc' = "row") =>
             timers' = Append(timers, [run |-> run, row |-> i, gen |-> nRuns,
                                       output |-> output])
       /\ dom' # dom =>
             /\ Idle
             /\ timers # <<>>
             /\ timers' = Tail(timers)
             /\ \A n \in DOMAIN dom :
                   IF n = Head(timers).row
                   THEN /\ dom[n].by = 0
                        /\ dom'[n].content = Head(timers).output
                        /\ dom'[n].nodes = ParseHTML(Head(timers).output)
                        /\ dom'[n].popovers
                   ELSE dom'[n] = dom[n]]_vars

\* The pass is over, the first row has been replaced with an anchor and
\* activated, the second still shows its original content with its replacement
\* queued.
C13_Witness ==
    /\ Idle
    /\ ann[1] = "ok"
    /\ Len(dom) = 2
    /\ Len(timers) = 1
    /\ timers[1].row = 2
    /\ dom[1].by = 1
    /\ dom[1].popovers
    /\ \E m \in DOMAIN dom[1].content : dom[1].content[m] \in AnchorOpens
    /\ dom[2].by = 0
    /\ dom[2].content = InnerHTML(table[2])
    /\ timers[1].output # dom[2].content

\* ---------------------------------------------------------------- C14
\* C14: in a render pass a visible hover popover is dismissed after all rows
\* have been traversed and after the row content it was anchored to, one of
\* the rows of the table, has been replaced by that pass.
C14_DismissalAfterReplacement ==
    [][(popoverVisible /\ ~popoverVisible') =>
          /\ pc = "row"
          /\ i > Len(dom)
          /\ \E n \in DOMAIN dom : dom[n].by = run]_vars

\* ---------------------------------------------------------------- C15
\* An element the page context is resolved from is not in the document: the
\* file container, or the permalink element.
ElementAbsent == ~page.fileElem \/ ~page.permalink

\* C15: no version-gate or annotations request of a run is issued with an
\* undefined commit ID, no run raises an error, and when an element the page
\* context is resolved from is absent no request is issued and no row is
\* replaced or queued for replacement.
C15_AbsentElementStopsQuietly ==
    \A r \in Runs :
        /\ (gate[r] # "none" \/ ann[r] # "none") => commitID[r] # Undefined
        /\ ~raised[r]
        /\ ElementAbsent =>
              /\ gate[r] = "none"
              /\ ann[r] = "none"
              /\ TimersOf(r) = {}
              /\ RowsWrittenBy(r) = {}

\* ---------------------------------------------------------------- C16
\* C16: the revision sent in the version-gate and annotations requests of a
\* run is the segment at index 6 of the split URL when there is one and
\* "master" when there is none, whatever the route kind at index 5.
C16_RevisionOrMaster ==
    \A r \in Runs :
        (gate[r] # "none" \/ ann[r] # "none") =>
            branch[r] = (IF Segment(urlsplit, 6) # Undefined
                         THEN Segment(urlsplit, 6)
                         ELSE "master")

\* ---------------------------------------------------------------- C17
\* C17: for every answer of the service whose annotations do not overlap, the
\* index a running pass reads holds no record that lacks a URL, maps
\* byStart[a.StartByte] = a and byEnd[a.EndByte] = a for every record a that
\* has one, and has no other keys.
C17_IndexOfLinkedRecords ==
    ~Idle =>
        /\ \A b \in DOMAIN byStart : byStart[b].URL # Undefined
        /\ \A b \in DOMAIN byEnd : byEnd[b].URL # Undefined
        /\ \A n \in DOMAIN serverAnns :
              serverAnns[n].URL # Undefined =>
                  /\ serverAnns[n].StartByte \in DOMAIN byStart
                  /\ byStart[serverAnns[n].StartByte] = serverAnns[n]
                  /\ serverAnns[n].EndByte \in DOMAIN byEnd
                  /\ byEnd[serverAnns[n].EndByte] = serverAnns[n]
        /\ \A b \in DOMAIN byStart :
              \E n \in DOMAIN serverAnns :
                  serverAnns[n].URL # Undefined /\ serverAnns[n].StartByte = b
        /\ \A b \in DOMAIN byEnd :
              \E n \in DOMAIN serverAnns :
                  serverAnns[n].URL # Undefined /\ serverAnns[n].EndByte = b

\* A pass runs on the index of an answer that has a record without a URL
\* followed by one with a URL.
C17_Witness ==
    /\ ~Idle
    /\ Len(serverAnns) = 2
    /\ serverAnns[1].URL = Undefined
    /\ serverAnns[2].URL # Undefined
    /\ DOMAIN byStart = {serverAnns[2].StartByte}

\* ---------------------------------------------------------------- C18
\* The character at k is a < whose next character is not a space, a < that
\* ends the node included.
OpensMarkup ==
    /\ Chars[k] = "<"
    /\ (k = Len(Chars) \/ Chars[k + 1] # " ")

\* C18: consumingSpan is false when a child node's loop starts; in a turn of
\* the loop it goes from false to true exactly when the character is a < not
\* followed by a space, stays true up to the next > and is false after it;
\* the character of a turn in which the flag is or becomes true, the < and the
\* > among them, is copied to the output and not counted.
C18_ConsumingFlag ==
    [][/\ (pc = "child" /\ pc' = "char") => consumingSpan' = "false"
       /\ (AtChar /\ k' = k + 1) =>
             /\ (consumingSpan = "false" /\ consumingSpan' = "true") =>
                   OpensMarkup
             /\ (consumingSpan = "false" /\ OpensMarkup) =>
                   consumingSpan' = (IF Chars[k] = ">" THEN "false" ELSE "true")
             /\ Chars[k] = ">" => consumingSpan' = "false"
             /\ (consumingSpan = "true" /\ Chars[k] # ">") =>
                   consumingSpan' = "true"
             /\ (consumingSpan = "true" \/ OpensMarkup) =>
                   /\ output' = Append(output, Chars[k])
                   /\ startByte' = startByte
             /\ (consumingSpan = "false" /\ ~OpensMarkup) =>
                   startByte' = startByte + Utf8Length(<<Chars[k]>>)]_vars

\* A text node has ended with a <: the flag is raised and the < was copied
\* without being counted.
C18_Witness ==
    /\ pc = "char"
    /\ k > Len(Chars)
    /\ Chars[Len(Chars)] = "<"
    /\ consumingSpan = "true"
    /\ output # <<>>
    /\ output[Len(output)] = "<"
    /\ Children(i)[j].nodeType = "TEXT_NODE"

\* ---------------------------------------------------------------- C19
\* C19: while a call of traverseDOM is under way no step of another run
\* executes: no request is issued or answered, no navigation is handled, no
\* timer fires, the pass stays the same run's, and the only timers added are
\* that pass's own.  The flags consumingSpan and annotating change only in
\* the steps of a pass, which sets both at the start of every child node
\* before it reads them.
C19_PassesDoNotInterleave ==
    [][/\ pc # "idle" =>
             /\ <<auth, gate, ann, token, nRuns, listeners>>' =
                   <<auth, gate, ann, token, nRuns, listeners>>
             /\ dom' = dom
             /\ pc' # "idle" => run' = run
             /\ \/ timers' = timers
                \/ /\ Len(timers') = Len(timers) + 1
                   /\ SubSeq(timers', 1, Len(timers)) = timers
                   /\ timers'[Len(timers')].run = run
       /\ <<consumingSpan, annotating>>' # <<consumingSpan, annotating>> =>
             pc \in {"child", "char"}
       /\ (pc = "child" /\ pc' = "char") =>
             consumingSpan' = "false" /\ annotating' = "false"
       /\ (pc # "char" /\ pc' = "char") => pc = "child"]_vars

\* The pass of the second run is in the middle of a child node while a
\* response and the timers of the first run are waiting.
C19_Witness ==
    /\ pc = "char"
    /\ k > 1
    /\ run = 2
    /\ gate[1] = "inflight"
    /\ TimersOf(1) # {}

\* ---------------------------------------------------------------- C20
\* C20: the credential request of a run is issued only on a page marked
\* private; on a page not marked private the version-gate request is issued
\* by mainCall itself, with no credential request of that run; on a private
\* page it is issued only in the step that handles the credential response.
C20_CredentialOnlyWhenPrivate ==
    [][\A r \in Runs :
          /\ (auth[r] = "none" /\ auth'[r] # "none") =>
                page.private /\ auth'[r] = "inflight" /\ nRuns' = r
          /\ (gate[r] = "none" /\ gate'[r] # "none") =>
                IF page.private
                THEN /\ auth[r] = "inflight"
                     /\ auth'[r] = "ok"
                     /\ nRuns' = nRuns
                ELSE /\ auth[r] = "none"
                     /\ auth'[r] = "none"
                     /\ nRuns' = r
          /\ ~page.private => auth[r] = "none"]_vars

\* On a private page the version-gate request of a run is in flight, issued
\* with the token taken from the credential response.
C20_Witness ==
    \E r \in Runs :
        /\ page.private
        /\ auth[r] = "ok"
        /\ gate[r] = "inflight"
        /\ token[r] = "x-oauth-basic:TOKEN"

\* ---------------------------------------------------------------- C21
\* The anchors of a row's content, in order.
Anchors(s) == SelectSeq(s, LAMBDA t : t \in AnchorOpens \cup {AnchorClose})

\* Opening and closing anchors alternate, from an opening one to a closing one.
Balanced(s) ==
    /\ Len(Anchors(s)) % 2 = 0
    /\ \A n \in 1..Len(Anchors(s)) :
          IF n % 2 = 1
          THEN Anchors(s)[n] \in AnchorOpens
          ELSE Anchors(s)[n] = AnchorClose

\* C21: for every row and every index of non-overlapping annotations the
\* content built for the row has balanced anchors: each opening anchor is
\* followed by one closing anchor before the next opening anchor and before
\* the end of the row, and no closing anchor comes without an opening one
\* (for an answer of the service that is well formed: every annotation covers
\* whole characters of one line).
C21_BalancedAnchors ==
    WellFormedAnswer =>
        /\ \A n \in DOMAIN timers : Balanced(timers[n].output)
        /\ \A n \in DOMAIN dom : dom[n].by # 0 => Balanced(dom[n].content)

\* ---------------------------------------------------------------- C22
\* C22: a replacement of a row that already holds the content an earlier pass
\* built with the same index leaves the row as it is: the row's child nodes
\* after the replacement are its child nodes before, with no anchor added in
\* or around the earlier pass's anchors.
C22_SecondPassIdempotent ==
    [][\A n \in DOMAIN dom :
          (dom[n].by # 0 /\ dom'[n].by # 0) => dom'[n].nodes = dom[n].nodes]_vars

\* ---------------------------------------------------------------- C23
\* C23: a click on a generated link emits exactly one JumpToDefinition event,
\* however many times mainCall has run on the page before the click.
C23_OneEventPerClick == logged \in {0, 1}

\* ---------------------------------------------------------------- C24
\* The page has the file blob element and the last dot-separated part of the
\* file name shown is "go" in some letter case.
GoFilePage == page.fileElem /\ page.lang \in {"go", "GO"}

====
